---- MODULE Spec2Model ----
(***************************************************************************)
(* Model of projct.py: a FastAPI application over four SQLAlchemy tables   *)
(* (stables, pilots, stages, results) kept in a SQLite file.               *)
(*                                                                         *)
(* One step of the model is one HTTP request served from start to end:     *)
(* the router picks the endpoint by the registration order of the          *)
(* decorators, the parameters are validated against the declared types,    *)
(* the endpoint runs against the store, and the response is recorded.      *)
(*                                                                         *)
(* Representation.  Text that the program compares or builds (race_time,   *)
(* additional_info, search queries) is a sequence of character codes.      *)
(* Other text (names, countries, locations) is a TLA+ string.  Dates are   *)
(* day ordinals.  track_length_km is kept in thousandths (metres).         *)
(***************************************************************************)
EXTENDS Integers, Sequences, FiniteSets, TLC

VARIABLES
    db,          \* the store: one sequence of rows per table, in rowid order
    req,         \* the request served by the last step
    resp,        \* the response to it: [status, body]
    sessions,    \* Session objects created by SessionLocal() and never closed
    writes,      \* number of write requests served so far
    submitted,   \* <<table, id>> -> body of the Create request that made the row
    updated      \* result_id -> new_position of the last successful update

vars == <<db, req, resp, sessions, writes, submitted, updated>>

\* At most this many write requests (POST, PUT) are served in one behaviour.
MaxWrites == 2
\* Sessions left open are counted up to this many.
MaxOpen == 2

-----------------------------------------------------------------------------
(* Values *)

\* Python None / SQL NULL in a text column; no text equals it.
None == <<0>>

Max(S) == CHOOSE x \in S : \A y \in S : y <= x

\* str(datetime.timedelta(seconds=sec)) for a duration below one day:
\* "H:MM:SS", the hour without padding.
TimedeltaStr(sec) ==
    LET h  == sec \div 3600
        m  == (sec % 3600) \div 60
        s  == sec % 60
        hh == IF h < 10 THEN <<48 + h>> ELSE <<48 + (h \div 10), 48 + (h % 10)>>
    IN  hh \o <<58, 48 + (m \div 10), 48 + (m % 10), 58, 48 + (s \div 10), 48 + (s % 10)>>

\* random.randint(lo, hi) and random.uniform: the k-th draw of a generator
\* whose state is seed.  Every draw lies in lo..hi.
Rand(seed, k, lo, hi) == lo + ((seed * 7919 + k * 104729 + 13) % (hi - lo + 1))

\* int(text) as the path-parameter validation does it: the decimal texts the
\* requests of this model use; any other text is not an integer.
IntOf == ("1" :> 1) @@ ("2" :> 2) @@ ("11" :> 11) @@ ("99" :> 99)

IsIntText(s) == s \in DOMAIN IntOf

-----------------------------------------------------------------------------
(* The tables *)

EmptyDb == [stables |-> <<>>, pilots |-> <<>>, stages |-> <<>>, results |-> <<>>]

\* Variant: the id is the number of rows, so the second row repeats the id
\* of the first.
NextId_RowCount(rows, key) == IF rows = <<>> THEN 1 ELSE Len(rows)

\* Integer primary key without AUTOINCREMENT: SQLite assigns max(rowid) + 1.
NextId(rows, key) ==
    IF rows = <<>> THEN 1 ELSE Max({rows[i][key] : i \in DOMAIN rows}) + 1

\* Variant: the filter is lost, first() answers the first row of the table.
QueryFirst_Unfiltered(rows, key, id) == IF rows = <<>> THEN 0 ELSE 1

\* query(T).filter(T.key == id).first(): the first matching row in rowid
\* order, as an index into the table, or 0 when there is none.
QueryFirst(rows, key, id) ==
    LET hits == {i \in DOMAIN rows : rows[i][key] = id}
    IN  IF hits = {} THEN 0 ELSE CHOOSE i \in hits : \A j \in hits : i <= j

-----------------------------------------------------------------------------
(* Response contracts (pydantic models with orm_mode) *)

StableResponse(row) ==
    [name |-> row.name, country |-> row.country, stable_id |-> row.stable_id]

PilotResponse(row) ==
    [name |-> row.name, stable_id |-> row.stable_id,
     experience_years |-> row.experience_years,
     additional_info |-> row.additional_info, pilot_id |-> row.pilot_id]

StageResponse(row) ==
    [date |-> row.date, location |-> row.location,
     track_length_km |-> row.track_length_km,
     audience_count |-> row.audience_count, stage_id |-> row.stage_id]

ResultResponse(row) ==
    [pilot_id |-> row.pilot_id, stage_id |-> row.stage_id,
     position |-> row.position, pit_stops |-> row.pit_stops,
     race_time |-> row.race_time, result_id |-> row.result_id]

\* raise HTTPException(status_code, detail)
HTTPException(d, status_code, detail) ==
    [db |-> d, status |-> status_code, body |-> [detail |-> detail]]

\* An exception of the store escapes the endpoint: the session's pending
\* change is never committed and the server answers 500.
StoreError(d) ==
    [db |-> d, status |-> 500, body |-> [detail |-> "Internal Server Error"]]

\* A parameter does not have its declared type: the endpoint is not run.
RequestValidationError(d) ==
    [db |-> d, status |-> 422, body |-> [detail |-> "value is not a valid integer"]]

Ok(d, body) == [db |-> d, status |-> 200, body |-> body]

-----------------------------------------------------------------------------
(* CRUD endpoints.  commit_ok is FALSE when db.commit() raises. *)

\* Variant: a stable whose name is stored already is not inserted again.
create_stable_dedup(stable, d, commit_ok) ==
    LET db_stable == [stable_id |-> NextId(d.stables, "stable_id"),
                      name |-> stable.name, country |-> stable.country]
        same      == {i \in DOMAIN d.stables : d.stables[i].name = stable.name}
    IN  IF ~commit_ok THEN StoreError(d)
        ELSE IF same # {} THEN Ok(d, StableResponse(d.stables[Max(same)]))
        ELSE Ok([d EXCEPT !.stables = Append(@, db_stable)], StableResponse(db_stable))

create_stable(stable, d, commit_ok) ==
    LET db_stable == [stable_id |-> NextId(d.stables, "stable_id"),
                      name |-> stable.name, country |-> stable.country]
    IN  IF commit_ok
        THEN Ok([d EXCEPT !.stables = Append(@, db_stable)], StableResponse(db_stable))
        ELSE StoreError(d)

get_stable(stable_id, d) ==
    LET i == QueryFirst(d.stables, "stable_id", stable_id)
    IN  IF i = 0 THEN HTTPException(d, 404, "Stable not found")
        ELSE Ok(d, StableResponse(d.stables[i]))

\* Variant: additional_info is not copied from the body.
create_pilot_no_info(pilot, d, commit_ok) ==
    LET db_pilot == [pilot_id |-> NextId(d.pilots, "pilot_id"),
                     name |-> pilot.name, stable_id |-> pilot.stable_id,
                     experience_years |-> pilot.experience_years,
                     additional_info |-> None]
    IN  IF commit_ok
        THEN Ok([d EXCEPT !.pilots = Append(@, db_pilot)], PilotResponse(db_pilot))
        ELSE StoreError(d)

create_pilot(pilot, d, commit_ok) ==
    LET db_pilot == [pilot_id |-> NextId(d.pilots, "pilot_id"),
                     name |-> pilot.name, stable_id |-> pilot.stable_id,
                     experience_years |-> pilot.experience_years,
                     additional_info |-> pilot.additional_info]
    IN  IF commit_ok
        THEN Ok([d EXCEPT !.pilots = Append(@, db_pilot)], PilotResponse(db_pilot))
        ELSE StoreError(d)

get_pilot(pilot_id, d) ==
    LET i == QueryFirst(d.pilots, "pilot_id", pilot_id)
    IN  IF i = 0 THEN HTTPException(d, 404, "Pilot not found")
        ELSE Ok(d, PilotResponse(d.pilots[i]))

create_stage(stage, d, commit_ok) ==
    LET db_stage == [stage_id |-> NextId(d.stages, "stage_id"),
                     date |-> stage.date, location |-> stage.location,
                     track_length_km |-> stage.track_length_km,
                     audience_count |-> stage.audience_count]
    IN  IF commit_ok
        THEN Ok([d EXCEPT !.stages = Append(@, db_stage)], StageResponse(db_stage))
        ELSE StoreError(d)

get_stage(stage_id, d) ==
    LET i == QueryFirst(d.stages, "stage_id", stage_id)
    IN  IF i = 0 THEN HTTPException(d, 404, "Stage not found")
        ELSE Ok(d, StageResponse(d.stages[i]))

create_result(result, d, commit_ok) ==
    LET db_result == [result_id |-> NextId(d.results, "result_id"),
                      pilot_id |-> result.pilot_id, stage_id |-> result.stage_id,
                      position |-> result.position, pit_stops |-> result.pit_stops,
                      race_time |-> result.race_time]
    IN  IF commit_ok
        THEN Ok([d EXCEPT !.results = Append(@, db_result)], ResultResponse(db_result))
        ELSE StoreError(d)

get_result(result_id, d) ==
    LET i == QueryFirst(d.results, "result_id", result_id)
    IN  IF i = 0 THEN HTTPException(d, 404, "Result not found")
        ELSE Ok(d, ResultResponse(d.results[i]))

-----------------------------------------------------------------------------
(* Sample data *)

stable_names == <<"Red Bull Racing", "Ferrari", "Mercedes", "McLaren">>
countries    == <<"Austria", "Italy", "Germany", "UK">>
pilot_names  == <<"Max Verstappen", "Charles Leclerc", "Lewis Hamilton", "Lando Norris">>
\* f"Location_{i}" for i in range(5)
Locations    == <<"Location_0", "Location_1", "Location_2", "Location_3", "Location_4">>

\* for name, country in zip(stable_names, countries)
SampleStables ==
    [k \in 1..Len(stable_names) |->
        [fn |-> "create_stable",
         arg |-> [name |-> stable_names[k], country |-> countries[k]]]]

\* for i, name in enumerate(pilots); i = k - 1
SamplePilots(seed) ==
    [k \in 1..Len(pilot_names) |->
        [fn |-> "create_pilot",
         arg |-> [name |-> pilot_names[k],
                  stable_id |-> ((k - 1) % Len(stable_names)) + 1,
                  experience_years |-> Rand(seed, k - 1, 1, 10),
                  additional_info |-> None]]]

\* for i in range(5); i = k - 1
SampleStages(seed, today) ==
    [k \in 1..5 |->
        [fn |-> "create_stage",
         arg |-> [date |-> today - (k - 1) * 30,
                  location |-> Locations[k],
                  track_length_km |-> Rand(seed, 4 + 2 * (k - 1), 3500, 7000),
                  audience_count |-> Rand(seed, 5 + 2 * (k - 1), 5000, 100000)]]]

\* for i in range(10); i = k - 1
SampleResults(seed) ==
    [k \in 1..10 |->
        [fn |-> "create_result",
         arg |-> [pilot_id |-> Rand(seed, 14 + 5 * (k - 1), 1, Len(pilot_names)),
                  stage_id |-> Rand(seed, 15 + 5 * (k - 1), 1, 5),
                  position |-> Rand(seed, 16 + 5 * (k - 1), 1, 20),
                  pit_stops |-> Rand(seed, 17 + 5 * (k - 1), 1, 5),
                  race_time |-> TimedeltaStr(Rand(seed, 18 + 5 * (k - 1), 3600, 7200))]]]

\* One direct call of a create endpoint with the request's own session.
Call(c, d, commit_ok) ==
    CASE c.fn = "create_stable" -> create_stable(c.arg, d, commit_ok)
      [] c.fn = "create_pilot"  -> create_pilot(c.arg, d, commit_ok)
      [] c.fn = "create_stage"  -> create_stage(c.arg, d, commit_ok)
      [] c.fn = "create_result" -> create_result(c.arg, d, commit_ok)

\* The calls from the k-th on, in order; each commits on its own.  The
\* fault-th commit of the request raises (fault = 0: none does) and the
\* exception ends the request.
RECURSIVE RunCalls(_, _, _, _)
\* After the k-th call: its exception propagates, or the loop goes on.
AfterCall(calls, k, out, fault) ==
    IF out.status # 200 THEN out ELSE RunCalls(calls, k + 1, out.db, fault)

RunCalls(calls, k, d, fault) ==
    IF k > Len(calls)
    THEN Ok(d, [message |-> "Sample data generated successfully"])
    ELSE AfterCall(calls, k, Call(calls[k], d, k # fault), fault)

generate_sample_data(d, seed, today, fault) ==
    RunCalls(SampleStables \o SamplePilots(seed) \o SampleStages(seed, today)
                \o SampleResults(seed),
             1, d, fault)

-----------------------------------------------------------------------------
(* Query endpoints *)

\* query(Result).filter(Result.position <= position,
\*                      Result.pit_stops >= pit_stops).all()
get_results_filtered(position, pit_stops, d) ==
    LET Keep(r) == r.position <= position /\ r.pit_stops >= pit_stops
    IN  Ok(d, [rows |-> SelectSeq(d.results, Keep)])

\* query(Pilot, Stable).join(Stable, Pilot.stable_id == Stable.stable_id).all()
RECURSIVE JoinRows(_, _, _)
JoinRows(ps, ss, i) ==
    IF i > Len(ps) THEN <<>>
    ELSE LET Hit(s) == s.stable_id = ps[i].stable_id
             hits   == SelectSeq(ss, Hit)
         IN  [j \in 1..Len(hits) |-> [Pilot |-> ps[i], Stable |-> hits[j]]]
                \o JoinRows(ps, ss, i + 1)

get_pilots_with_stables(d) == Ok(d, [rows |-> JoinRows(d.pilots, d.stables, 1)])

\* Variant: the update is not restricted to the row found.
update_every_position(result_id, new_position, d, commit_ok) ==
    LET i == QueryFirst(d.results, "result_id", result_id)
    IN  IF i # 0
        THEN IF commit_ok
             THEN LET nd == [d EXCEPT !.results =
                                [j \in DOMAIN @ |-> [@[j] EXCEPT !.position = new_position]]]
                  IN  Ok(nd, nd.results[i])
             ELSE StoreError(d)
        ELSE HTTPException(d, 404, "Result not found")

\* if db_result: ... position = new_position; commit; return db_result
update_result_position(result_id, new_position, d, commit_ok) ==
    LET i == QueryFirst(d.results, "result_id", result_id)
    IN  IF i # 0
        THEN IF commit_ok
             THEN LET nd == [d EXCEPT !.results[i].position = new_position]
                  IN  Ok(nd, nd.results[i])
             ELSE StoreError(d)
        ELSE HTTPException(d, 404, "Result not found")

\* query(Stage.location, count(Stage.stage_id)).group_by(Stage.location).all()
get_stages_grouped_by_location(d) ==
    LET locs == {d.stages[i].location : i \in DOMAIN d.stages}
    IN  Ok(d, [rows |-> {[location |-> l,
                          stage_count |-> Cardinality({i \in DOMAIN d.stages :
                                                d.stages[i].location = l})] : l \in locs}])

\* Text order of the store (BINARY collation): byte by byte, a proper prefix
\* first.
RECURSIVE TextLess(_, _)
TextLess(a, b) ==
    IF a = <<>> THEN b # <<>>
    ELSE IF b = <<>> THEN FALSE
    ELSE IF Head(a) # Head(b) THEN Head(a) < Head(b)
    ELSE TextLess(Tail(a), Tail(b))

ColumnLess(order_by, x, y) ==
    IF order_by = "race_time" THEN TextLess(x.race_time, y.race_time)
    ELSE x[order_by] < y[order_by]

\* ORDER BY column ASC over a scan in rowid order: rows with equal keys keep
\* their rowid order.
InsertSorted(sorted, row, order_by) ==
    LET before == {i \in DOMAIN sorted : ~ColumnLess(order_by, row, sorted[i])}
        cut    == IF before = {} THEN 0 ELSE Max(before)
    IN  SubSeq(sorted, 1, cut) \o <<row>> \o SubSeq(sorted, cut + 1, Len(sorted))

RECURSIVE OrderBy(_, _)
OrderBy(rows, order_by) ==
    IF rows = <<>> THEN <<>>
    ELSE InsertSorted(OrderBy(SubSeq(rows, 1, Len(rows) - 1), order_by),
                      rows[Len(rows)], order_by)

get_sorted_results(order_by, d) ==
    IF order_by \notin {"position", "pit_stops", "race_time"}
    THEN HTTPException(d, 400, "Invalid order_by parameter")
    ELSE Ok(d, [rows |-> OrderBy(d.results, order_by)])

\* ASCII case folding of LIKE.
Fold(c) == IF c \in 65..90 THEN c + 32 ELSE c

\* column LIKE '%' || query || '%': NULL matches nothing.
Contains(text, query) ==
    /\ text # None
    /\ \E i \in 0..(Len(text) - Len(query)) :
          \A j \in 1..Len(query) : Fold(text[i + j]) = Fold(query[j])

\* query(Pilot).filter(Pilot.additional_info.contains(query)).all()
search_pilots(query, d) ==
    LET Keep(p) == Contains(p.additional_info, query)
    IN  Ok(d, [rows |-> SelectSeq(d.pilots, Keep)])

-----------------------------------------------------------------------------
(* Routing: the decorators, in the order the module registers them *)

Lit(s)   == [kind |-> "lit", name |-> s]
Param(s) == [kind |-> "param", name |-> s]

Routes == <<
    [method |-> "POST", path |-> <<Lit("stables"), Lit("")>>,               endpoint |-> "create_stable"],
    [method |-> "GET",  path |-> <<Lit("stables"), Param("stable_id")>>,    endpoint |-> "get_stable"],
    [method |-> "POST", path |-> <<Lit("pilots"), Lit("")>>,                endpoint |-> "create_pilot"],
    [method |-> "GET",  path |-> <<Lit("pilots"), Param("pilot_id")>>,      endpoint |-> "get_pilot"],
    [method |-> "POST", path |-> <<Lit("stages"), Lit("")>>,                endpoint |-> "create_stage"],
    [method |-> "GET",  path |-> <<Lit("stages"), Param("stage_id")>>,      endpoint |-> "get_stage"],
    [method |-> "POST", path |-> <<Lit("results"), Lit("")>>,               endpoint |-> "create_result"],
    [method |-> "GET",  path |-> <<Lit("results"), Param("result_id")>>,    endpoint |-> "get_result"],
    [method |-> "POST", path |-> <<Lit("generate_sample_data")>>,           endpoint |-> "generate_sample_data"],
    [method |-> "GET",  path |-> <<Lit("results"), Lit("filter")>>,         endpoint |-> "get_results_filtered"],
    [method |-> "GET",  path |-> <<Lit("pilots"), Lit("details")>>,         endpoint |-> "get_pilots_with_stables"],
    [method |-> "PUT",  path |-> <<Lit("results"), Lit("update_position")>>, endpoint |-> "update_result_position"],
    [method |-> "GET",  path |-> <<Lit("stages"), Lit("group")>>,           endpoint |-> "get_stages_grouped_by_location"],
    [method |-> "GET",  path |-> <<Lit("results"), Lit("sorted")>>,         endpoint |-> "get_sorted_results"],
    [method |-> "GET",  path |-> <<Lit("pilots"), Lit("search")>>,          endpoint |-> "search_pilots"] >>

\* A literal segment matches itself; a {parameter} matches any non-empty
\* segment, whatever its declared type.
SegMatches(p, seg) == IF p.kind = "lit" THEN seg = p.name ELSE seg # ""

PathMatches(route, path) ==
    /\ Len(route.path) = Len(path)
    /\ \A i \in DOMAIN path : SegMatches(route.path[i], path[i])

Match(route, r) ==
    IF ~PathMatches(route, r.path) THEN "NONE"
    ELSE IF route.method = r.method THEN "FULL"
    ELSE "PARTIAL"

\* The first route, in registration order, that matches path and method;
\* 0 when none does.
Dispatch(r) ==
    LET full == {i \in DOMAIN Routes : Match(Routes[i], r) = "FULL"}
    IN  IF full = {} THEN 0 ELSE CHOOSE i \in full : \A j \in full : i <= j

\* The text bound to the route's path parameter.
PathArg(route, r) ==
    r.path[CHOOSE i \in DOMAIN route.path : route.path[i].kind = "param"]

\* The endpoint of the matched route, run on the validated parameters: an
\* endpoint whose path parameter is declared int is not run when the text
\* denotes no integer.  env is the environment of the request: env.fault is
\* the commit that raises (0: none), env.seed the state of the random
\* generator, env.today the current date.
Endpoint(route, r, env, d) ==
    CASE route.endpoint = "create_stable" -> create_stable(r.body, d, env.fault # 1)
      [] route.endpoint = "create_pilot"  -> create_pilot(r.body, d, env.fault # 1)
      [] route.endpoint = "create_stage"  -> create_stage(r.body, d, env.fault # 1)
      [] route.endpoint = "create_result" -> create_result(r.body, d, env.fault # 1)
      [] route.endpoint = "get_stable" ->
            IF IsIntText(PathArg(route, r))
            THEN get_stable(IntOf[PathArg(route, r)], d)
            ELSE RequestValidationError(d)
      [] route.endpoint = "get_pilot" ->
            IF IsIntText(PathArg(route, r))
            THEN get_pilot(IntOf[PathArg(route, r)], d)
            ELSE RequestValidationError(d)
      [] route.endpoint = "get_stage" ->
            IF IsIntText(PathArg(route, r))
            THEN get_stage(IntOf[PathArg(route, r)], d)
            ELSE RequestValidationError(d)
      [] route.endpoint = "get_result" ->
            IF IsIntText(PathArg(route, r))
            THEN get_result(IntOf[PathArg(route, r)], d)
            ELSE RequestValidationError(d)
      [] route.endpoint = "generate_sample_data" ->
            generate_sample_data(d, env.seed, env.today, env.fault)
      [] route.endpoint = "get_results_filtered" ->
            get_results_filtered(r.query.position, r.query.pit_stops, d)
      [] route.endpoint = "get_pilots_with_stables" -> get_pilots_with_stables(d)
      [] route.endpoint = "update_result_position" ->
            update_result_position(r.query.result_id, r.query.new_position, d,
                                   env.fault # 1)
      [] route.endpoint = "get_stages_grouped_by_location" ->
            get_stages_grouped_by_location(d)
      [] route.endpoint = "get_sorted_results" -> get_sorted_results(r.query.order_by, d)
      [] route.endpoint = "search_pilots" -> search_pilots(r.query.query, d)

\* No route matches path and method: 405 when a route matches the path alone,
\* else 404.
NoRoute(r, d) ==
    [endpoint |-> "", db |-> d,
     status |-> IF \E j \in DOMAIN Routes : Match(Routes[j], r) = "PARTIAL"
                THEN 405 ELSE 404,
     body |-> [detail |-> "Not Found"]]

Routed(route, out) ==
    [endpoint |-> route.endpoint, db |-> out.db, status |-> out.status,
     body |-> out.body]

RouteTo(i, r, env, d) ==
    IF i = 0 THEN NoRoute(r, d)
    ELSE Routed(Routes[i], Endpoint(Routes[i], r, env, d))

\* One request from arrival to response: [endpoint, db, status, body].
Handle(r, env, d) == RouteTo(Dispatch(r), r, env, d)

\* db: Session = Depends(SessionLocal): each request routed to an endpoint
\* gets a new Session from the factory.  No endpoint closes its session and
\* the dependency has no teardown, so the count of open sessions only grows.
Acquire(n, endpoint) ==
    IF endpoint = "" THEN n
    ELSE IF n < MaxOpen THEN n + 1 ELSE MaxOpen

-----------------------------------------------------------------------------
(* Requests and their inputs *)

NoArgs == [none |-> TRUE]
NoEnv  == [seed |-> 0, today |-> 0, fault |-> 0]

StableBodies ==
    {[name |-> "Alpine", country |-> "France"],
     [name |-> "Williams", country |-> "UK"]}

PilotBodies ==
    {[name |-> "Pierre Gasly", stable_id |-> 1, experience_years |-> 7,
      additional_info |-> None],
     [name |-> "Jack Doohan", stable_id |-> 7, experience_years |-> 0,
      additional_info |-> <<82, 111, 111, 107, 105, 101>>]}       \* "Rookie"

StageBodies ==
    {[date |-> 19000, location |-> "Monza", track_length_km |-> 5793,
      audience_count |-> 0]}

ResultBodies ==
    {[pilot_id |-> 1, stage_id |-> 1, position |-> 3, pit_stops |-> 2,
      race_time |-> TimedeltaStr(5025)],                            \* "1:23:45"
     [pilot_id |-> 9, stage_id |-> 9, position |-> 8, pit_stops |-> 0,
      race_time |-> TimedeltaStr(36000)]}                           \* "10:00:00"

IdTexts      == DOMAIN IntOf
UpdateIds    == {1, 2, 99}
NewPositions == {5, -1}
OrderBys     == {"position", "race_time", "bogus"}
Queries      == {<<114, 111, 111>>}                                 \* "roo"
Seeds        == {0, 1}
Days         == {19000}
\* Which commit of a request raises: none, or the one commit of a single
\* write.
CommitFaults == {0, 1}
\* Which of the 23 commits of generate_sample_data raises: none, the first,
\* one inside the stables, one inside the stages, one inside the results.
GenerateFaults == {0, 1, 3, 12, 20}

Request(method, path, query, body) ==
    [method |-> method, path |-> path, query |-> query, body |-> body]

\* The table and key of the row a create endpoint returns.
Created ==
    [create_stable |-> [table |-> "stables", key |-> "stable_id"],
     create_pilot  |-> [table |-> "pilots",  key |-> "pilot_id"],
     create_stage  |-> [table |-> "stages",  key |-> "stage_id"],
     create_result |-> [table |-> "results", key |-> "result_id"]]

\* The state after request r, served in environment env, got outcome out.
Respond(r, env, out) ==
    /\ db' = out.db
    /\ req' = [method |-> r.method, path |-> r.path, query |-> r.query,
               body |-> r.body, env |-> env]
    /\ resp' = [status |-> out.status, body |-> out.body]
    /\ sessions' = Acquire(sessions, out.endpoint)
    /\ submitted' =
          IF out.endpoint \in DOMAIN Created /\ out.status = 200
          THEN (<<Created[out.endpoint].table, out.body[Created[out.endpoint].key]>>
                    :> r.body) @@ submitted
          ELSE submitted
    /\ updated' =
          IF out.endpoint = "update_result_position" /\ out.status = 200
          THEN (r.query.result_id :> r.query.new_position) @@ updated
          ELSE updated

\* The server serves request r in environment env.
Serve(r, env) == Respond(r, env, Handle(r, env, db))

CreateStable ==
    \E body \in StableBodies, fault \in CommitFaults :
        /\ writes < MaxWrites
        /\ writes' = writes + 1
        /\ Serve(Request("POST", <<"stables", "">>, NoArgs, body),
              [NoEnv EXCEPT !.fault = fault])

GetStable ==
    \E id \in IdTexts :
        /\ UNCHANGED writes
        /\ Serve(Request("GET", <<"stables", id>>, NoArgs, NoArgs), NoEnv)

CreatePilot ==
    \E body \in PilotBodies, fault \in CommitFaults :
        /\ writes < MaxWrites
        /\ writes' = writes + 1
        /\ Serve(Request("POST", <<"pilots", "">>, NoArgs, body),
              [NoEnv EXCEPT !.fault = fault])

GetPilot ==
    \E id \in IdTexts :
        /\ UNCHANGED writes
        /\ Serve(Request("GET", <<"pilots", id>>, NoArgs, NoArgs), NoEnv)

CreateStage ==
    \E body \in StageBodies, fault \in CommitFaults :
        /\ writes < MaxWrites
        /\ writes' = writes + 1
        /\ Serve(Request("POST", <<"stages", "">>, NoArgs, body),
              [NoEnv EXCEPT !.fault = fault])

GetStage ==
    \E id \in IdTexts :
        /\ UNCHANGED writes
        /\ Serve(Request("GET", <<"stages", id>>, NoArgs, NoArgs), NoEnv)

CreateResult ==
    \E body \in ResultBodies, fault \in CommitFaults :
        /\ writes < MaxWrites
        /\ writes' = writes + 1
        /\ Serve(Request("POST", <<"results", "">>, NoArgs, body),
              [NoEnv EXCEPT !.fault = fault])

GetResult ==
    \E id \in IdTexts :
        /\ UNCHANGED writes
        /\ Serve(Request("GET", <<"results", id>>, NoArgs, NoArgs), NoEnv)

GenerateSampleData ==
    \E seed \in Seeds, today \in Days, fault \in GenerateFaults :
        /\ writes < MaxWrites
        /\ writes' = writes + 1
        /\ Serve(Request("POST", <<"generate_sample_data">>, NoArgs, NoArgs),
              [seed |-> seed, today |-> today, fault |-> fault])

GetResultsFiltered ==
    \E position \in {5}, pit_stops \in {2} :
        /\ UNCHANGED writes
        /\ Serve(Request("GET", <<"results", "filter">>,
                     [position |-> position, pit_stops |-> pit_stops], NoArgs), NoEnv)

GetPilotsWithStables ==
    /\ UNCHANGED writes
    /\ Serve(Request("GET", <<"pilots", "details">>, NoArgs, NoArgs), NoEnv)

UpdateResultPosition ==
    \E result_id \in UpdateIds, new_position \in NewPositions, fault \in CommitFaults :
        /\ writes < MaxWrites
        /\ writes' = writes + 1
        /\ Serve(Request("PUT", <<"results", "update_position">>,
                      [result_id |-> result_id, new_position |-> new_position], NoArgs),
              [NoEnv EXCEPT !.fault = fault])

GetStagesGroupedByLocation ==
    /\ UNCHANGED writes
    /\ Serve(Request("GET", <<"stages", "group">>, NoArgs, NoArgs), NoEnv)

GetSortedResults ==
    \E order_by \in OrderBys :
        /\ UNCHANGED writes
        /\ Serve(Request("GET", <<"results", "sorted">>, [order_by |-> order_by], NoArgs), NoEnv)

SearchPilots ==
    \E query \in Queries :
        /\ UNCHANGED writes
        /\ Serve(Request("GET", <<"pilots", "search">>, [query |-> query], NoArgs), NoEnv)

Init ==
    /\ db = EmptyDb
    /\ req = [method |-> "", path |-> <<>>, query |-> NoArgs, body |-> NoArgs,
              env |-> NoEnv]
    /\ resp = [status |-> 0, body |-> NoArgs]
    /\ sessions = 0
    /\ writes = 0
    /\ submitted = <<>>
    /\ updated = <<>>

Next ==
    \/ CreateStable
    \/ GetStable
    \/ CreatePilot
    \/ GetPilot
    \/ CreateStage
    \/ GetStage
    \/ CreateResult
    \/ GetResult
    \/ GenerateSampleData
    \/ GetResultsFiltered
    \/ GetPilotsWithStables
    \/ UpdateResultPosition
    \/ GetStagesGroupedByLocation
    \/ GetSortedResults
    \/ SearchPilots

Spec == Init /\ [][Next]_vars

-----------------------------------------------------------------------------
(* Properties *)

KeyOf == [stables |-> "stable_id", pilots |-> "pilot_id",
          stages |-> "stage_id", results |-> "result_id"]

Tables == DOMAIN KeyOf

Ids(d, t) == {d[t][i][KeyOf[t]] : i \in DOMAIN d[t]}

Range(s) == {s[i] : i \in DOMAIN s}

\* r is GET /<t>/<integer>
IsGetById(r, t) ==
    /\ r.method = "GET"
    /\ Len(r.path) = 2
    /\ r.path[1] = t
    /\ IsIntText(r.path[2])

IsRequest(r, method, path) == r.method = method /\ r.path = path

\* What the Create body of row <<t, id>> lets a later Get expect, given the
\* position updates served since.
Expected(t, id, amended) ==
    LET body == submitted[<<t, id>>]
        now  == IF amended /\ t = "results" /\ id \in DOMAIN updated
                THEN [body EXCEPT !.position = updated[id]]
                ELSE body
    IN  now @@ (KeyOf[t] :> id)

\* C1 as stated: a Get by the id a Create returned answers the Create's body
\* plus the id, whatever requests were served before or in between.
C1_CreateThenGet_Original ==
    \A t \in Tables :
        (IsGetById(req, t) /\ <<t, IntOf[req.path[2]]>> \in DOMAIN submitted)
            => /\ resp.status = 200
               /\ resp.body = Expected(t, IntOf[req.path[2]], FALSE)

\* C1 amended: a Get by the id a Create returned answers the Create's body
\* plus the id, whatever create and generate requests were served before or
\* in between; a Result's position is the new_position of the last successful
\* Update Result position on that id, when one was served in between.
C1_CreateThenGet ==
    \A t \in Tables :
        (IsGetById(req, t) /\ <<t, IntOf[req.path[2]]>> \in DOMAIN submitted)
            => /\ resp.status = 200
               /\ resp.body[KeyOf[t]] \in Nat \ {0}
               /\ resp.body = Expected(t, IntOf[req.path[2]], TRUE)

\* A Result made by a Create request, updated, then fetched by its id.
C1_Witness ==
    /\ IsGetById(req, "results")
    /\ <<"results", IntOf[req.path[2]]>> \in DOMAIN submitted
    /\ IntOf[req.path[2]] \in DOMAIN updated
    /\ resp.status = 200

\* C2: a Get by an integer id that no row of the table has answers 404 and
\* leaves the store as it was.
C2_GetAbsentIsNotFound ==
    [][\A t \in Tables :
          (IsGetById(req', t) /\ IntOf[req'.path[2]] \notin Ids(db, t))
              => (resp'.status = 404 /\ db' = db)]_vars

\* A 404 for an id absent from a table that has rows.
C2_Witness ==
    \E t \in Tables :
        /\ IsGetById(req, t)
        /\ db[t] # <<>>
        /\ IntOf[req.path[2]] \notin Ids(db, t)
        /\ resp.status = 404

\* C3: an update of an existing result_id whose commit succeeds sets that
\* row's position, a Get of the id then returns it, and nothing else in the
\* store changes; with an absent result_id it answers 404 and the store is
\* unchanged.
C3_UpdatePosition ==
    [][IsRequest(req', "PUT", <<"results", "update_position">>) =>
          IF req'.query.result_id \notin Ids(db, "results")
          THEN resp'.status = 404 /\ db' = db
          ELSE req'.env.fault = 0 =>
                  /\ resp'.status = 200
                  /\ \E i \in DOMAIN db.results :
                        /\ db.results[i].result_id = req'.query.result_id
                        /\ db' = [db EXCEPT !.results[i].position = req'.query.new_position]
                  /\ get_result(req'.query.result_id, db').status = 200
                  /\ get_result(req'.query.result_id, db').body.position
                        = req'.query.new_position]_vars

\* A successful update in a store that holds other results and other tables'
\* rows.
C3_Witness ==
    /\ IsRequest(req, "PUT", <<"results", "update_position">>)
    /\ resp.status = 200
    /\ Len(db.results) >= 2
    /\ db.stables # <<>> /\ db.pilots # <<>> /\ db.stages # <<>>
    /\ \E i \in DOMAIN db.results : db.results[i].position # req.query.new_position

\* C4 as stated: after a write request ends, with success or with an error
\* at any step, the store is the store before it or that store plus the
\* request's complete effect (its effect when no step fails).
C4_AllOrNothing ==
    [][req'.method \in {"POST", "PUT"} =>
          \/ db' = db
          \/ db' = Handle(req', [req'.env EXCEPT !.fault = 0], db).db]_vars

\* C5 as stated: no session acquired for a finished request remains open.
\* Every state of the model lies between two requests.
C5_NoOpenSession == sessions = 0

\* C6: a run of generate_sample_data in which no commit raises answers 200
\* and adds exactly 4 stables, 4 pilots, 5 stages and 10 results, whatever
\* the store holds.
C6_GenerateAdds ==
    [][(IsRequest(req', "POST", <<"generate_sample_data">>) /\ req'.env.fault = 0)
          => /\ resp'.status = 200
             /\ Len(db'.stables) = Len(db.stables) + 4
             /\ Len(db'.pilots)  = Len(db.pilots) + 4
             /\ Len(db'.stages)  = Len(db.stages) + 5
             /\ Len(db'.results) = Len(db.results) + 10
             /\ \A t \in Tables : SubSeq(db'[t], 1, Len(db[t])) = db[t]]_vars

\* Two runs from the empty store: every table holds twice one run's rows.
C6_Witness ==
    /\ IsRequest(req, "POST", <<"generate_sample_data">>)
    /\ resp.status = 200
    /\ Len(db.stables) = 8 /\ Len(db.pilots) = 8
    /\ Len(db.stages) = 10 /\ Len(db.results) = 20

\* C7 as stated: GET /results/filter answers exactly the stored results with
\* position <= p and pit_stops >= s, an empty sequence when there is none.
C7_FilterExact ==
    IsRequest(req, "GET", <<"results", "filter">>) =>
        /\ resp.status = 200
        /\ Range(resp.body.rows) =
              {r \in Range(db.results) :
                  r.position <= req.query.position /\ r.pit_stops >= req.query.pit_stops}

\* C8 as stated: GET /results/sorted with a listed column answers all stored
\* results, each once, non-decreasing by that column; with another value it
\* answers 400.
C8_SortedOrInvalid ==
    IsRequest(req, "GET", <<"results", "sorted">>) =>
        IF req.query.order_by \in {"position", "pit_stops", "race_time"}
        THEN /\ resp.status = 200
             /\ Len(resp.body.rows) = Len(db.results)
             /\ Range(resp.body.rows) = Range(db.results)
             /\ \A i, j \in DOMAIN resp.body.rows :
                    i < j => ~ColumnLess(req.query.order_by,
                                         resp.body.rows[j], resp.body.rows[i])
        ELSE resp.status = 400

\* C9 as stated: GET /pilots/details answers one (Pilot, Stable) pair for
\* every pilot whose stable_id is the id of a stored stable, and none for a
\* pilot whose stable_id matches no stable.
C9_DetailsJoin ==
    IsRequest(req, "GET", <<"pilots", "details">>) =>
        /\ resp.status = 200
        /\ Range(resp.body.rows) =
              {[Pilot |-> p, Stable |-> s] : p \in Range(db.pilots), s \in Range(db.stables)}
                 \cap {pair \in [Pilot : Range(db.pilots), Stable : Range(db.stables)] :
                          pair.Pilot.stable_id = pair.Stable.stable_id}

\* r creates rows of table t: POST /<t>/ or POST /generate_sample_data
Creates(r, t) ==
    \/ IsRequest(r, "POST", <<t, "">>)
    \/ IsRequest(r, "POST", <<"generate_sample_data">>)

\* C10: in every step no row is removed, a table grows only under its create
\* request or under generate_sample_data, ids in a table are unique, the rows
\* already stored keep every field except that the position of one Result
\* changes under an update of that result_id, and a GET request leaves the
\* store as it was.
C10_Lifecycle ==
    [][/\ \A t \in Tables :
            /\ Len(db'[t]) >= Len(db[t])
            /\ Len(db'[t]) > Len(db[t]) => Creates(req', t)
            /\ Cardinality(Ids(db', t)) = Len(db'[t])
            /\ \A i \in DOMAIN db[t] :
                  /\ db'[t][i][KeyOf[t]] = db[t][i][KeyOf[t]]
                  /\ t # "results" => db'[t][i] = db[t][i]
       /\ \A i \in DOMAIN db.results :
            /\ [db'.results[i] EXCEPT !.position = db.results[i].position] = db.results[i]
            /\ db'.results[i].position # db.results[i].position =>
                  /\ IsRequest(req', "PUT", <<"results", "update_position">>)
                  /\ req'.query.result_id = db.results[i].result_id
       /\ req'.method = "GET" => db' = db]_vars

\* A store filled by generate_sample_data in which an update then changed a
\* position.
C10_Witness ==
    /\ IsRequest(req, "PUT", <<"results", "update_position">>)
    /\ resp.status = 200
    /\ Len(db.results) = 10
    /\ \E i \in DOMAIN db.results :
          /\ db.results[i].result_id = req.query.result_id
          /\ db.results[i].position = -1

====
